---- MODULE Spec2Model ----
(***************************************************************************)
(* Product Management System (src/main.py): the sqlite-backed              *)
(* DatabaseManager and the flet ProductManagerApp that drives it.          *)
(*                                                                         *)
(* A Python str is a sequence of one-character strings over Alphabet.      *)
(* A Python int is a sign and a decimal digit sequence (unbounded, as in   *)
(* Python); a Python float is a sign, a kind and a decimal mantissa/scale, *)
(* exact for the short decimals the model's price texts denote.            *)
(***************************************************************************)
EXTENDS Integers, Sequences, FiniteSets, TLC

\* ------------------------------------------------------------------ text

Digits == <<"0", "1", "2", "3", "4", "5", "6", "7", "8", "9">>

LowerLetters == <<"a", "b", "f", "h", "i", "k", "n", "x">>

UpperLetters == <<"A", "B", "F", "H", "I", "K", "N", "X">>

Alphabet ==
    {Digits[i] : i \in 1..10} \cup {LowerLetters[i] : i \in 1..8}
        \cup {UpperLetters[i] : i \in 1..8} \cup {" ", "_", "%", "-", "+", "."}

IsDigit(c) == \E i \in 1..10 : Digits[i] = c

DigitVal(c) == (CHOOSE i \in 1..10 : Digits[i] = c) - 1

\* str.isspace() on the alphabet
IsSpace(c) == c = " "

\* ASCII case folding, as str.lower() and as SQLite's LIKE fold it
Lower(c) ==
    IF \E i \in 1..8 : UpperLetters[i] = c
    THEN LowerLetters[CHOOSE i \in 1..8 : UpperLetters[i] = c]
    ELSE c

LowerText(s) == [i \in 1..Len(s) |-> Lower(s[i])]

RECURSIVE LStrip(_)
LStrip(s) == IF s # <<>> /\ IsSpace(Head(s)) THEN LStrip(Tail(s)) ELSE s

RECURSIVE RStrip(_)
RStrip(s) ==
    IF s # <<>> /\ IsSpace(s[Len(s)]) THEN RStrip(SubSeq(s, 1, Len(s) - 1)) ELSE s

\* str.strip()
strip(s) == RStrip(LStrip(s))

\* truthiness of a str: `if self.name_field.value`
Truthy(s) == s # <<>>

\* --------------------------------------------------------------- numbers

\* a digit group of a numeric literal: digits, single underscores between them
IsDigitGroup(s) ==
    /\ s # <<>>
    /\ IsDigit(s[1])
    /\ IsDigit(s[Len(s)])
    /\ \A i \in 1..Len(s) : IsDigit(s[i]) \/ s[i] = "_"
    /\ \A i \in 1..(Len(s) - 1) : ~(s[i] = "_" /\ s[i + 1] = "_")

OnlyDigits(s) == SelectSeq(s, IsDigit)

RECURSIVE DropZeros(_)
DropZeros(ds) ==
    IF Len(ds) > 1 /\ Head(ds) = "0" THEN DropZeros(Tail(ds)) ELSE ds

HasSign(s) == s # <<>> /\ Head(s) \in {"-", "+"}

Unsigned(s) == IF HasSign(s) THEN Tail(s) ELSE s

\* int(text): [ok |-> FALSE] is ValueError
int(text) ==
    LET t == strip(text)
        body == Unsigned(t)
    IN  IF IsDigitGroup(body)
        THEN LET mag == DropZeros(OnlyDigits(body))
             IN  [ok |-> TRUE,
                  neg |-> (t[1] = "-" /\ mag # <<"0">>),
                  mag |-> mag]
        ELSE [ok |-> FALSE, neg |-> FALSE, mag |-> <<"0">>]

\* quantity < 0
IntNegative(v) == v.neg

\* str(int)
IntStr(v) == IF v.neg THEN <<"-">> \o v.mag ELSE v.mag

RECURSIVE DigitsLeq(_, _)
DigitsLeq(a, b) ==
    IF Len(a) # Len(b) THEN Len(a) < Len(b)
    ELSE IF a = <<>> THEN TRUE
    ELSE IF Head(a) # Head(b) THEN DigitVal(Head(a)) < DigitVal(Head(b))
    ELSE DigitsLeq(Tail(a), Tail(b))

\* 2^63 - 1 and 2^63, the range of the SQLite INTEGER storage class
Int64MaxDigits ==
    <<"9", "2", "2", "3", "3", "7", "2", "0", "3", "6",
      "8", "5", "4", "7", "7", "5", "8", "0", "7">>

Int64MinDigits ==
    <<"9", "2", "2", "3", "3", "7", "2", "0", "3", "6",
      "8", "5", "4", "7", "7", "5", "8", "0", "8">>

\* sqlite3 binds a Python int only when it fits 64 bits (else OverflowError)
FitsInt64(v) ==
    IF v.neg THEN DigitsLeq(v.mag, Int64MinDigits) ELSE DigitsLeq(v.mag, Int64MaxDigits)

RECURSIVE DigitsToNat(_)
DigitsToNat(ds) ==
    IF ds = <<>> THEN 0 ELSE DigitsToNat(SubSeq(ds, 1, Len(ds) - 1)) * 10 + DigitVal(ds[Len(ds)])

RECURSIVE NatToDigits(_)
NatToDigits(n) ==
    IF n < 10 THEN <<Digits[n + 1]>> ELSE NatToDigits(n \div 10) \o <<Digits[(n % 10) + 1]>>

RECURSIVE Pow10(_)
Pow10(k) == IF k = 0 THEN 1 ELSE 10 * Pow10(k - 1)

RECURSIVE NormDec(_, _)
NormDec(m, s) == IF s > 0 /\ m % 10 = 0 THEN NormDec(m \div 10, s - 1) ELSE <<m, s>>

FloatErr == [ok |-> FALSE, kind |-> "nan", neg |-> FALSE, m |-> 0, s |-> 0]

IndexOfDot(s) == IF \E i \in 1..Len(s) : s[i] = "." THEN CHOOSE i \in 1..Len(s) : s[i] = "." ELSE 0

\* float(text): decimal literals without exponent, "inf" and "nan" (the
\* alphabet holds no "e"); the value is m / 10^s, exact for short decimals
float(text) ==
    LET t == strip(text)
        body == Unsigned(t)
        neg == t # <<>> /\ t[1] = "-"
        low == LowerText(body)
        dot == IndexOfDot(body)
        ip == IF dot = 0 THEN body ELSE SubSeq(body, 1, dot - 1)
        fp == IF dot = 0 THEN <<>> ELSE SubSeq(body, dot + 1, Len(body))
    IN  IF low = <<"n", "a", "n">>
        THEN [ok |-> TRUE, kind |-> "nan", neg |-> neg, m |-> 0, s |-> 0]
        ELSE IF low = <<"i", "n", "f">>
        THEN [ok |-> TRUE, kind |-> "inf", neg |-> neg, m |-> 0, s |-> 0]
        ELSE IF /\ (ip = <<>> \/ IsDigitGroup(ip))
                /\ (fp = <<>> \/ IsDigitGroup(fp))
                /\ ~(ip = <<>> /\ fp = <<>>)
        THEN LET fd == OnlyDigits(fp)
                 nd == NormDec(DigitsToNat(OnlyDigits(ip) \o fd), Len(fd))
             IN  [ok |-> TRUE, kind |-> "fin", neg |-> neg, m |-> nd[1], s |-> nd[2]]
        ELSE FloatErr

\* price <= 0 (False for nan)
FloatLeqZero(v) ==
    CASE v.kind = "nan" -> FALSE
      [] v.kind = "inf" -> v.neg
      [] OTHER -> v.neg \/ v.m = 0

\* price > 0
FloatPositive(v) ==
    CASE v.kind = "nan" -> FALSE
      [] v.kind = "inf" -> ~v.neg
      [] OTHER -> ~v.neg /\ v.m > 0

RECURSIVE PadLeft(_, _)
PadLeft(ds, n) == IF Len(ds) >= n THEN ds ELSE PadLeft(<<"0">> \o ds, n)

\* str(float): repr of a short decimal ("5.0", "2.5", "inf", "nan")
FloatStr(v) ==
    LET sign == IF v.neg THEN <<"-">> ELSE <<>>
    IN  CASE v.kind = "nan" -> <<"n", "a", "n">>
          [] v.kind = "inf" -> sign \o <<"i", "n", "f">>
          [] OTHER ->
               sign \o NatToDigits(v.m \div Pow10(v.s)) \o <<".">>
                    \o (IF v.s = 0 THEN <<"0">>
                        ELSE PadLeft(NatToDigits(v.m % Pow10(v.s)), v.s))

\* f"${price:.2f}" for a price of at most two fractional digits
FormatPrice(v) ==
    LET sign == IF v.neg THEN <<"-">> ELSE <<>>
    IN  CASE v.kind = "nan" -> <<"$", "n", "a", "n">>
          [] v.kind = "inf" -> <<"$">> \o sign \o <<"i", "n", "f">>
          [] OTHER ->
               <<"$">> \o sign \o NatToDigits(v.m \div Pow10(v.s)) \o <<".">>
                    \o PadLeft(NatToDigits((v.m % Pow10(v.s)) * Pow10(2 - v.s)), 2)

\* ------------------------------------------------------------- the store

MaxId == 3

VARIABLES
    products,          \* rows of table products (main.py 13-20)
    sqlite_sequence,   \* AUTOINCREMENT's record of the largest rowid ever used (14)
    calls,             \* store calls of the latest event, with what they returned
    created_order,     \* history: the ids create_product returned, in order
    deleted,           \* history: [id, seq] of each removal, seq the sequence then
    name_field,        \* the value of each TextField (78-107)
    category_field,
    price_field,
    quantity_field,
    search_field,
    current_edit_id,   \* (67)
    submit_visible,    \* the visible flag of each button (110-126)
    update_visible,
    cancel_visible,
    rows,              \* data_table.rows (129-140, 180-207)
    dialog_open,       \* page.dialog.open (295, 299, 315)
    dialog_pid,        \* the product_id the open dialog's confirm_delete closes over
    snack_bar,         \* the message of page.snack_bar (385-393)
    event              \* the handler that ran last

dbvars == <<products, sqlite_sequence, created_order, deleted>>

formvars == <<name_field, category_field, price_field, quantity_field>>

buttonvars == <<submit_visible, update_visible, cancel_visible>>

dialogvars == <<dialog_open, dialog_pid>>

uivars ==
    <<formvars, search_field, current_edit_id, buttonvars, rows, dialogvars, snack_bar, event>>

vars == <<dbvars, calls, uivars>>

None == 0

Ids(tbl) == {r.id : r \in tbl}

Row(id, name, category, price, quantity, created_date) ==
    [id |-> id, name |-> name, category |-> category, price |-> price,
     quantity |-> quantity, created_date |-> created_date]

MaxOf(S) == IF S = {} THEN 0 ELSE CHOOSE m \in S : \A x \in S : x <= m

\* INTEGER PRIMARY KEY without AUTOINCREMENT: one more than the largest rowid present
NextIdNoAutoincrement(tbl, seq) == MaxOf(Ids(tbl)) + 1

\* INTEGER PRIMARY KEY AUTOINCREMENT: one more than the largest rowid ever used
NextId(tbl, seq) == MaxOf(Ids(tbl) \cup {seq}) + 1

\* datetime.now().strftime("%Y-%m-%d %H:%M:%S") at second `sec` of one minute
\* (the part up to the seconds is kept as one piece of text)
strftime(sec) ==
    <<"2026-11-01 13:04:">> \o PadLeft(NatToDigits(sec), 2)

\* what binding and the NOT NULL columns make of (price, quantity): a Python
\* int beyond 64 bits cannot be bound, a NaN is bound as NULL
BindOverflow(quantity) == ~FitsInt64(quantity)

NullPrice(price) == price.kind = "nan"

RECURSIVE SortAsc(_)
SortAsc(S) ==
    IF S = {} THEN <<>>
    ELSE LET r == CHOOSE r \in S : \A q \in S : r.id <= q.id
         IN  <<r>> \o SortAsc(S \ {r})

RECURSIVE SortDesc(_)
SortDesc(S) ==
    IF S = {} THEN <<>>
    ELSE LET r == CHOOSE r \in S : \A q \in S : q.id <= r.id
         IN  <<r>> \o SortDesc(S \ {r})

\* read_products as it would be with ORDER BY id ASC
read_products_asc(tbl) == SortAsc(tbl)

\* SELECT * FROM products ORDER BY id DESC
read_products(tbl) == SortDesc(tbl)

\* x LIKE pattern: % any run, _ any one character, ASCII case folded
RECURSIVE Like(_, _)
Like(p, s) ==
    IF p = <<>> THEN s = <<>>
    ELSE IF Head(p) = "%" THEN Like(Tail(p), s) \/ (s # <<>> /\ Like(p, Tail(s)))
    ELSE IF Head(p) = "_" THEN s # <<>> /\ Like(Tail(p), Tail(s))
    ELSE s # <<>> /\ Lower(Head(p)) = Lower(Head(s)) /\ Like(Tail(p), Tail(s))

\* f'%{search_term}%'
LikePattern(term) == <<"%">> \o term \o <<"%">>

RECURSIVE Filter(_, _)
Filter(seq, term) ==
    IF seq = <<>> THEN <<>>
    ELSE LET r == Head(seq)
             rest == Filter(Tail(seq), term)
         IN  IF Like(LikePattern(term), r.name) \/ Like(LikePattern(term), r.category)
             THEN <<r>> \o rest
             ELSE rest

\* SELECT * FROM products WHERE name LIKE ? OR category LIKE ? ORDER BY id DESC
search_products(tbl, term) == Filter(SortDesc(tbl), term)

Call(op, id, term, args, ret, exc, out) ==
    [op |-> op, id |-> id, term |-> term, args |-> args, ret |-> ret, exc |-> exc,
     out |-> out]

\* DatabaseManager.create_product: the table, the sequence and the call's outcome
DbCreate(tbl, seq, name, category, price, quantity, sec) ==
    LET id == NextId(tbl, seq)
        args == <<name, category, price, quantity>>
    IN  IF BindOverflow(quantity)
        THEN [tbl |-> tbl, seq |-> seq,
              call |-> Call("create_product", None, <<>>, args, 0, "OverflowError", <<>>)]
        ELSE IF NullPrice(price)
        THEN [tbl |-> tbl, seq |-> seq,
              call |-> Call("create_product", None, <<>>, args, 0, "IntegrityError", <<>>)]
        ELSE [tbl |-> tbl \cup {Row(id, name, category, price, quantity, strftime(sec))},
              seq |-> id,
              call |-> Call("create_product", None, <<>>, args, id, "", <<>>)]

DbRead(tbl) == Call("read_products", None, <<>>, <<>>, 0, "", read_products(tbl))

\* DatabaseManager.update_product: the table and the call's outcome (ret is rowcount)
DbUpdate(tbl, product_id, name, category, price, quantity) ==
    LET args == <<name, category, price, quantity>>
        hit == {r \in tbl : r.id = product_id}
    IN  IF BindOverflow(quantity)
        THEN [tbl |-> tbl,
              call |-> Call("update_product", product_id, <<>>, args, 0, "OverflowError", <<>>)]
        ELSE IF hit # {} /\ NullPrice(price)
        THEN [tbl |-> tbl,
              call |-> Call("update_product", product_id, <<>>, args, 0, "IntegrityError", <<>>)]
        ELSE [tbl |-> (tbl \ hit) \cup
                        {Row(r.id, name, category, price, quantity, r.created_date) : r \in hit},
              call |-> Call("update_product", product_id, <<>>, args, Cardinality(hit), "", <<>>)]

\* DatabaseManager.delete_product: the table and the call's outcome (ret is rowcount)
DbDelete(tbl, product_id) ==
    LET hit == {r \in tbl : r.id = product_id}
    IN  [tbl |-> tbl \ hit,
         call |-> Call("delete_product", product_id, <<>>, <<>>, Cardinality(hit), "", <<>>)]

DbSearch(tbl, term) ==
    Call("search_products", None, term, <<>>, 0, "", search_products(tbl, term))

\* -------------------------------------------------- the store, called alone

\* wall-clock seconds datetime.now() may read
Seconds == {7, 8}

\* argument tuples (name, category, price, quantity) of create and update
StoreArgs ==
    { <<<<"A", "b">>, <<"h">>, float(<<"9", ".", "9", "9">>), int(<<"1", "0">>)>>,
      <<<<"b">>, <<"K", "_">>, float(<<"1", "2", ".", "5">>), int(<<"5">>)>>,
      <<<<"k">>, <<"h">>, float(<<"1">>), int(Int64MinDigits)>>,
      <<<<"k">>, <<"h">>, float(<<"n", "a", "n">>), int(<<"1">>)>> }

SearchTerms == { <<>>, <<"a">>, <<"B">>, <<"_">>, <<"%">>, <<"k", "_">>, <<"x">> }

Init ==
    /\ products = {}
    /\ sqlite_sequence = 0
    /\ calls = <<>>
    /\ created_order = <<>>
    /\ deleted = {}
    /\ name_field = <<>>
    /\ category_field = <<>>
    /\ price_field = <<>>
    /\ quantity_field = <<>>
    /\ search_field = <<>>
    /\ current_edit_id = None
    /\ submit_visible = TRUE
    /\ update_visible = FALSE
    /\ cancel_visible = FALSE
    /\ rows = <<>>
    /\ dialog_open = FALSE
    /\ dialog_pid = None
    /\ snack_bar = ""
    /\ event = "main"

\* the history variables after a create_product that returned `c`
CreatedAfter(c) == IF c.exc = "" THEN Append(created_order, c.ret) ELSE created_order

\* the history variables after a delete_product that returned `c`
DeletedAfter(c) ==
    IF c.ret > 0 THEN deleted \cup {[id |-> c.id, seq |-> sqlite_sequence]} ELSE deleted

DeletedIds == {d.id : d \in deleted}

call_create_product ==
    \E a \in StoreArgs, sec \in Seconds :
        LET r == DbCreate(products, sqlite_sequence, a[1], a[2], a[3], a[4], sec)
        IN  /\ sqlite_sequence < MaxId
            /\ products' = r.tbl
            /\ sqlite_sequence' = r.seq
            /\ calls' = <<r.call>>
            /\ created_order' = CreatedAfter(r.call)
            /\ UNCHANGED <<deleted, uivars>>

call_read_products ==
    /\ calls' = <<DbRead(products)>>
    /\ UNCHANGED <<dbvars, uivars>>

call_update_product ==
    \E id \in 1..MaxId, a \in StoreArgs :
        LET r == DbUpdate(products, id, a[1], a[2], a[3], a[4])
        IN  /\ products' = r.tbl
            /\ calls' = <<r.call>>
            /\ UNCHANGED <<sqlite_sequence, created_order, deleted, uivars>>

call_delete_product ==
    \E id \in 1..MaxId :
        LET r == DbDelete(products, id)
        IN  /\ products' = r.tbl
            /\ calls' = <<r.call>>
            /\ deleted' = DeletedAfter(r.call)
            /\ UNCHANGED <<sqlite_sequence, created_order, uivars>>

call_search_products ==
    \E term \in SearchTerms :
        /\ calls' = <<DbSearch(products, term)>>
        /\ UNCHANGED <<dbvars, uivars>>

StoreNext ==
    \/ call_create_product
    \/ call_read_products
    \/ call_update_product
    \/ call_delete_product
    \/ call_search_products

StoreSpec == Init /\ [][StoreNext]_vars

\* ------------------------------------------------------ the application

\* what the user may have typed into (name, category, price, quantity); the
\* NumbersOnlyInputFilter of the price and quantity fields narrows what a
\* keyboard can enter, the handlers read whatever the fields hold
Drafts ==
    { <<<<" ", "a", " ">>, <<"h", " ">>, <<"5">>, <<"3">>>>,
      <<<<"B">>, <<"k">>, <<" ", "2", ".", "5", "0">>, <<"0">>>>,
      <<<<" ">>, <<"h">>, <<"5">>, <<"3">>>>,
      <<<<"a">>, <<>>, <<"5">>, <<"3">>>>,
      <<<<"a">>, <<"h">>, <<"0">>, <<"3">>>>,
      <<<<"a">>, <<"h">>, <<"x">>, <<"3">>>>,
      <<<<"a">>, <<"h">>, <<"5">>, <<"-", "1">>>>,
      <<<<"a">>, <<"h">>, <<"5">>, <<>>>>,
      <<<<"a">>, <<"h">>, <<"5">>, Int64MinDigits>>,
      <<<<"a">>, <<"h">>, <<"n", "a", "n">>, <<"3">>>> }

SearchTexts == { <<>>, <<" ">>, <<" ", "A">> }

\* how many products the application session adds
MaxAdded == 2

\* wall-clock seconds datetime.now() may read during the application session
SessionSeconds == {7}

\* validate_form as it would be without the .strip() tests
ValidateMessageNoStrip(name, category, price, quantity) ==
    LET p == float(price)
        q == int(quantity)
    IN  IF ~Truthy(name) THEN "Please enter product name"
        ELSE IF ~Truthy(category) THEN "Please enter category"
        ELSE IF ~p.ok THEN "Please enter valid price"
        ELSE IF FloatLeqZero(p) THEN "Price must be greater than 0"
        ELSE IF ~q.ok THEN "Please enter valid quantity"
        ELSE IF IntNegative(q) THEN "Quantity cannot be negative"
        ELSE ""

\* the message validate_form shows, "" when it returns True
ValidateMessage(name, category, price, quantity) ==
    LET p == float(price)
        q == int(quantity)
    IN  IF ~Truthy(name) \/ ~Truthy(strip(name)) THEN "Please enter product name"
        ELSE IF ~Truthy(category) \/ ~Truthy(strip(category)) THEN "Please enter category"
        ELSE IF ~p.ok THEN "Please enter valid price"
        ELSE IF FloatLeqZero(p) THEN "Price must be greater than 0"
        ELSE IF ~q.ok THEN "Please enter valid quantity"
        ELSE IF IntNegative(q) THEN "Quantity cannot be negative"
        ELSE ""

\* validate_form as it would be with `price < 0` for `price <= 0`
validate_form_zero_price ==
    \/ ValidateMessage(name_field, category_field, price_field, quantity_field) = ""
    \/ ValidateMessage(name_field, category_field, price_field, quantity_field)
           = "Price must be greater than 0"

validate_form ==
    ValidateMessage(name_field, category_field, price_field, quantity_field) = ""

\* the DataRow load_products builds from one product tuple
DataRow(p) ==
    [pid |-> p.id,
     cells |-> <<NatToDigits(p.id), p.name, p.category, FormatPrice(p.price),
                 IntStr(p.quantity), p.created_date>>]

\* data_table.rows after load_products(list)
load_products(list) == [i \in 1..Len(list) |-> DataRow(list[i])]

RowPids == {rows[i].pid : i \in 1..Len(rows)}

\* the user fills the form
type_draft ==
    \E d \in Drafts :
        /\ ~dialog_open
        /\ event' = "input"
        /\ name_field' = d[1]
        /\ category_field' = d[2]
        /\ price_field' = d[3]
        /\ quantity_field' = d[4]
        /\ calls' = <<>>
        /\ UNCHANGED <<dbvars, search_field, current_edit_id, buttonvars, rows,
                       dialogvars, snack_bar>>

add_product ==
    \E sec \in SessionSeconds :
        LET msg == ValidateMessage(name_field, category_field, price_field, quantity_field)
            r == DbCreate(products, sqlite_sequence, strip(name_field),
                          strip(category_field), float(price_field),
                          int(quantity_field), sec)
        IN  /\ ~dialog_open
            /\ event' = "add_product"
            /\ submit_visible
            /\ IF ~validate_form
               THEN /\ snack_bar' = msg
                    /\ calls' = <<>>
                    /\ UNCHANGED <<dbvars, formvars, rows>>
               ELSE IF ~(Truthy(name_field) /\ Truthy(category_field)
                         /\ Truthy(price_field) /\ Truthy(quantity_field))
               THEN /\ snack_bar' = "Please fill all fields!"
                    /\ calls' = <<>>
                    /\ UNCHANGED <<dbvars, formvars, rows>>
               ELSE IF ~float(price_field).ok \/ ~int(quantity_field).ok
               THEN /\ snack_bar' = "Invalid number format"
                    /\ calls' = <<>>
                    /\ UNCHANGED <<dbvars, formvars, rows>>
               ELSE IF r.call.exc # ""
               THEN /\ snack_bar' = "Error adding product"
                    /\ calls' = <<r.call>>
                    /\ UNCHANGED <<dbvars, formvars, rows>>
               ELSE /\ sqlite_sequence < MaxAdded
                    /\ products' = r.tbl
                    /\ sqlite_sequence' = r.seq
                    /\ created_order' = CreatedAfter(r.call)
                    /\ name_field' = <<>>
                    /\ category_field' = <<>>
                    /\ price_field' = <<>>
                    /\ quantity_field' = <<>>
                    /\ rows' = load_products(read_products(r.tbl))
                    /\ calls' = <<r.call, DbRead(r.tbl)>>
                    /\ snack_bar' = "Product added successfully!"
                    /\ UNCHANGED deleted
            /\ UNCHANGED <<search_field, current_edit_id, buttonvars, dialogvars>>

edit_product ==
    \E product_id \in RowPids :
        LET found == {p \in products : p.id = product_id}
            product == CHOOSE p \in found : TRUE
        IN  /\ ~dialog_open
            /\ event' = "edit_product"
            /\ calls' = <<DbRead(products)>>
            /\ IF found # {}
               THEN /\ current_edit_id' = product_id
                    /\ name_field' = product.name
                    /\ category_field' = product.category
                    /\ price_field' = FloatStr(product.price)
                    /\ quantity_field' = IntStr(product.quantity)
                    /\ submit_visible' = FALSE
                    /\ update_visible' = TRUE
                    /\ cancel_visible' = TRUE
                    /\ snack_bar' = "Editing product"
               ELSE UNCHANGED <<current_edit_id, formvars, buttonvars, snack_bar>>
            /\ UNCHANGED <<dbvars, search_field, rows, dialogvars>>

update_product ==
    LET msg == ValidateMessage(name_field, category_field, price_field, quantity_field)
        r == DbUpdate(products, current_edit_id, strip(name_field),
                      strip(category_field), float(price_field), int(quantity_field))
    IN  /\ ~dialog_open
        /\ event' = "update_product"
        /\ update_visible
        /\ IF ~validate_form
           THEN /\ snack_bar' = msg
                /\ calls' = <<>>
                /\ UNCHANGED <<products, formvars, current_edit_id, buttonvars, rows>>
           ELSE IF current_edit_id = None
           THEN /\ calls' = <<>>
                /\ UNCHANGED <<products, formvars, current_edit_id, buttonvars, rows,
                               snack_bar>>
           ELSE IF ~float(price_field).ok \/ ~int(quantity_field).ok
           THEN /\ snack_bar' = "Error updating product"
                /\ calls' = <<>>
                /\ UNCHANGED <<products, formvars, current_edit_id, buttonvars, rows>>
           ELSE IF r.call.exc # ""
           THEN /\ snack_bar' = "Error updating product"
                /\ calls' = <<r.call>>
                /\ UNCHANGED <<products, formvars, current_edit_id, buttonvars, rows>>
           ELSE IF r.call.ret > 0
           THEN /\ products' = r.tbl
                /\ name_field' = <<>>
                /\ category_field' = <<>>
                /\ price_field' = <<>>
                /\ quantity_field' = <<>>
                /\ current_edit_id' = None
                /\ submit_visible' = TRUE
                /\ update_visible' = FALSE
                /\ cancel_visible' = FALSE
                /\ rows' = load_products(read_products(r.tbl))
                /\ calls' = <<r.call, DbRead(r.tbl)>>
                /\ snack_bar' = "Product updated successfully!"
           ELSE /\ snack_bar' = "Product not found!"
                /\ calls' = <<r.call>>
                /\ UNCHANGED <<products, formvars, current_edit_id, buttonvars, rows>>
        /\ UNCHANGED <<sqlite_sequence, created_order, deleted, search_field, dialogvars>>

\* the row's delete control as it would be without the confirmation dialog
delete_product_no_confirm ==
    \E product_id \in RowPids :
        LET r == DbDelete(products, product_id)
        IN  /\ ~dialog_open
            /\ event' = "delete_product"
            /\ products' = r.tbl
            /\ deleted' = DeletedAfter(r.call)
            /\ rows' = load_products(read_products(r.tbl))
            /\ calls' = <<r.call, DbRead(r.tbl)>>
            /\ snack_bar' = "Product deleted successfully!"
            /\ UNCHANGED <<sqlite_sequence, created_order, formvars, search_field,
                           current_edit_id, buttonvars, dialogvars>>

\* the row's delete control: opens the confirmation dialog
delete_product ==
    \E product_id \in RowPids :
        /\ ~dialog_open
        /\ event' = "delete_product"
        /\ dialog_open' = TRUE
        /\ dialog_pid' = product_id
        /\ calls' = <<>>
        /\ UNCHANGED <<dbvars, formvars, search_field, current_edit_id, buttonvars,
                       rows, snack_bar>>

\* the dialog's Yes
confirm_delete ==
    LET r == DbDelete(products, dialog_pid)
    IN  /\ dialog_open
        /\ event' = "confirm_delete"
        /\ products' = r.tbl
        /\ deleted' = DeletedAfter(r.call)
        /\ IF r.call.ret > 0
           THEN /\ rows' = load_products(read_products(r.tbl))
                /\ calls' = <<r.call, DbRead(r.tbl)>>
                /\ snack_bar' = "Product deleted successfully!"
           ELSE /\ snack_bar' = "Product not found!"
                /\ calls' = <<r.call>>
                /\ UNCHANGED rows
        /\ dialog_open' = FALSE
        /\ dialog_pid' = None
        /\ UNCHANGED <<sqlite_sequence, created_order, formvars, search_field,
                       current_edit_id, buttonvars>>

\* the dialog's No
cancel_delete ==
    /\ dialog_open
    /\ event' = "cancel_delete"
    /\ dialog_open' = FALSE
    /\ dialog_pid' = None
    /\ calls' = <<>>
    /\ UNCHANGED <<dbvars, formvars, search_field, current_edit_id, buttonvars, rows,
                   snack_bar>>

\* cancel_edit as it would be without `self.current_edit_id = None`
cancel_edit_keeps_id ==
    /\ ~dialog_open
    /\ event' = "cancel_edit"
    /\ cancel_visible
    /\ name_field' = <<>>
    /\ category_field' = <<>>
    /\ price_field' = <<>>
    /\ quantity_field' = <<>>
    /\ submit_visible' = TRUE
    /\ update_visible' = FALSE
    /\ cancel_visible' = FALSE
    /\ calls' = <<>>
    /\ UNCHANGED <<dbvars, search_field, current_edit_id, rows, dialogvars, snack_bar>>

cancel_edit ==
    /\ ~dialog_open
    /\ event' = "cancel_edit"
    /\ cancel_visible
    /\ name_field' = <<>>
    /\ category_field' = <<>>
    /\ price_field' = <<>>
    /\ quantity_field' = <<>>
    /\ current_edit_id' = None
    /\ submit_visible' = TRUE
    /\ update_visible' = FALSE
    /\ cancel_visible' = FALSE
    /\ calls' = <<>>
    /\ UNCHANGED <<dbvars, search_field, rows, dialogvars, snack_bar>>

\* on_change of the search field: the new text, then the handler
search_products_changed ==
    \E text \in SearchTexts :
        LET search_term == strip(text)
        IN  /\ ~dialog_open
            /\ event' = "search_products"
            /\ text # search_field
            /\ search_field' = text
            /\ IF Truthy(search_term)
               THEN /\ rows' = load_products(search_products(products, search_term))
                    /\ calls' = <<DbSearch(products, search_term)>>
                    /\ snack_bar' = "Found products"
               ELSE /\ rows' = load_products(read_products(products))
                    /\ calls' = <<DbRead(products)>>
                    /\ UNCHANGED snack_bar
            /\ UNCHANGED <<dbvars, formvars, current_edit_id, buttonvars, dialogvars>>

Next ==
    \/ type_draft
    \/ add_product
    \/ edit_product
    \/ update_product
    \/ delete_product
    \/ confirm_delete
    \/ cancel_delete
    \/ cancel_edit
    \/ search_products_changed

Spec == Init /\ [][Next]_vars

\* ----------------------------------------------------------- properties

\* term occurs in text as a literal substring, letters compared case-insensitively
ContainsFolded(text, term) ==
    \E i \in 1..(Len(text) - Len(term) + 1) :
        LowerText(SubSeq(text, i, i + Len(term) - 1)) = LowerText(term)

RECURSIVE LiteralMatches(_, _)
LiteralMatches(seq, term) ==
    IF seq = <<>> THEN <<>>
    ELSE LET r == Head(seq)
             rest == LiteralMatches(Tail(seq), term)
         IN  IF ContainsFolded(r.name, term) \/ ContainsFolded(r.category, term)
             THEN <<r>> \o rest
             ELSE rest

\* the draft is valid in the words of the specification
DraftValid ==
    /\ strip(name_field) # <<>>
    /\ strip(category_field) # <<>>
    /\ float(price_field).ok /\ FloatPositive(float(price_field))
    /\ int(quantity_field).ok /\ ~IntNegative(int(quantity_field))

\* the draft is invalid in the words of the specification
DraftInvalid ==
    \/ strip(name_field) = <<>>
    \/ strip(category_field) = <<>>
    \/ ~float(price_field).ok
    \/ FloatLeqZero(float(price_field))
    \/ ~int(quantity_field).ok
    \/ IntNegative(int(quantity_field))

DraftEmpty ==
    /\ name_field = <<>>
    /\ category_field = <<>>
    /\ price_field = <<>>
    /\ quantity_field = <<>>

CreateMode == current_edit_id = None /\ submit_visible /\ ~update_visible /\ ~cancel_visible

EditMode == current_edit_id # None /\ ~submit_visible /\ update_visible /\ cancel_visible

\* how often id occurs in a list of rows
Occurrences(list, id) == Cardinality({i \in 1..Len(list) : list[i].id = id})

\* when create_product last returned id
CreatedAt(id) ==
    MaxOf({i \in 1..Len(created_order) : created_order[i] = id})

\* C1: add_product on a valid draft adds exactly one record, with the trimmed
\* name and category, the submitted price and quantity, a fresh id and a
\* created_date, and leaves every earlier record as it was.
C1_AddValidDraft ==
    [][ (event' = "add_product" /\ DraftValid) =>
          \E r \in products' :
              /\ r \notin products
              /\ products' = products \cup {r}
              /\ r.name = strip(name_field)
              /\ r.category = strip(category_field)
              /\ r.price = float(price_field)
              /\ r.quantity = int(quantity_field)
              /\ r.id \notin Ids(products)
              /\ r.created_date # <<>>
              /\ Occurrences(read_products(products'), r.id) = 1 ]_vars

\* C2: update_product on an existing id returns 1 and replaces name, category,
\* price and quantity of that record, keeping its id and created_date and every
\* other record; on an absent id it returns 0 and changes nothing.
C2_UpdateContract ==
    [][ (Len(calls') = 1 /\ calls'[1].op = "update_product") =>
          LET c == calls'[1]
              old == {r \in products : r.id = c.id}
          IN  IF old # {}
              THEN /\ c.exc = ""
                   /\ c.ret = 1
                   /\ \E o \in old :
                         products' = (products \ {o}) \cup
                             {Row(o.id, c.args[1], c.args[2], c.args[3], c.args[4],
                                  o.created_date)}
                   /\ Cardinality(products') = Cardinality(products)
              ELSE /\ c.exc = ""
                   /\ c.ret = 0
                   /\ products' = products ]_vars

\* C3: delete_product on an existing id returns 1 and removes that record only;
\* on an id removed before it returns 0 and changes nothing, whatever was
\* created since: no removed id is in the table again.
C3_DeleteContract ==
    /\ [](DeletedIds \cap Ids(products) = {})
    /\ [][ (Len(calls') = 1 /\ calls'[1].op = "delete_product") =>
             LET c == calls'[1]
             IN  /\ c.id \in Ids(products) =>
                       /\ c.ret = 1
                       /\ products' = {r \in products : r.id # c.id}
                       /\ c.id \notin Ids(products')
                 /\ c.id \in DeletedIds => (c.ret = 0 /\ products' = products)
                 /\ c.id \notin Ids(products) => (c.ret = 0 /\ products' = products)
         ]_vars

C3_Witness ==
    /\ Len(calls) = 1
    /\ calls[1].op = "delete_product"
    /\ calls[1].ret = 0
    /\ \E d \in deleted : d.id = calls[1].id /\ d.seq < sqlite_sequence
    /\ products # {}

\* C4: search_products(term) returns the records of read_products whose name or
\* category contains term as a literal substring, case-insensitively, in the
\* same order; with the empty term it returns what read_products returns.
C4_SearchLiteral ==
    (Len(calls) = 1 /\ calls[1].op = "search_products") =>
        /\ calls[1].out = LiteralMatches(read_products(products), calls[1].term)
        /\ calls[1].term = <<>> => calls[1].out = read_products(products)

\* C5: read_products returns every record once, ids strictly descending, a
\* record created later before every record created earlier, and right after
\* a create the new record first.
C5_ReadOrder ==
    LET out == read_products(products)
    IN  /\ Len(out) = Cardinality(products)
        /\ {out[i] : i \in 1..Len(out)} = products
        /\ \A i, j \in 1..Len(out) :
               i < j => /\ out[i].id > out[j].id
                        /\ CreatedAt(out[i].id) > CreatedAt(out[j].id)
        /\ (Len(calls) = 1 /\ calls[1].op = "create_product" /\ calls[1].exc = "") =>
               (out # <<>> /\ out[1].id = calls[1].ret)
        /\ (Len(calls) = 1 /\ calls[1].op = "read_products") => calls[1].out = out

C5_Witness ==
    /\ Cardinality(products) >= 2
    /\ deleted # {}
    /\ Len(calls) = 1
    /\ calls[1].op = "read_products"
    /\ \E r \in products : r.name = <<"b">> /\ r.created_date = strftime(8)

\* C6: a submit (add_product or update_product) of an invalid draft calls the
\* store not at all and changes neither the table nor the draft nor the edited
\* id; a message is all it shows.
C6_InvalidDraftNoEffect ==
    [][ (event' \in {"add_product", "update_product"} /\ DraftInvalid) =>
          /\ calls' = <<>>
          /\ UNCHANGED <<dbvars, formvars, current_edit_id, buttonvars, rows,
                         search_field, dialogvars>>
          /\ snack_bar' \in {"Please enter product name", "Please enter category",
                             "Please enter valid price", "Price must be greater than 0",
                             "Please enter valid quantity", "Quantity cannot be negative"}
      ]_vars

C6_Witness ==
    /\ event = "update_product"
    /\ DraftInvalid
    /\ snack_bar = "Quantity cannot be negative"
    /\ current_edit_id # None
    /\ products # {}

\* C7: every stored product has price > 0, quantity >= 0, a name and a category
\* that are non-empty after trimming, and an id no other stored product has.
C7_StoredProductsValid ==
    /\ \A p \in products :
           /\ FloatPositive(p.price)
           /\ ~IntNegative(p.quantity)
           /\ strip(p.name) # <<>>
           /\ strip(p.category) # <<>>
    /\ \A p, q \in products : p.id = q.id => p = q

C7_Witness ==
    /\ event = "update_product"
    /\ Cardinality(products) = 2
    /\ snack_bar = "Product updated successfully!"
    /\ \E p \in products : p.id = 1 /\ p.name = <<"B">> /\ p.quantity = int(<<"0">>)

\* C8: when update_product or delete_product of the store reports 0 rows, the
\* handler shows "Product not found!" and reloads the table, so the rows shown
\* then are the store's rows.
C8_NotFoundReloads ==
    [][ (\E i \in 1..Len(calls') :
             /\ calls'[i].op \in {"update_product", "delete_product"}
             /\ calls'[i].exc = ""
             /\ calls'[i].ret = 0) =>
          /\ snack_bar' = "Product not found!"
          /\ rows' = load_products(read_products(products')) ]_vars

\* C9: current_edit_id is None exactly when Add is shown and Update and Cancel
\* are hidden, and set exactly when Add is hidden and Update and Cancel are
\* shown; add_product only inserts, update_product only touches the record of
\* current_edit_id, and a successful update and cancel_edit both end in create
\* mode with an empty draft.
C9_EditMode ==
    /\ []((current_edit_id = None <=> (submit_visible /\ ~update_visible /\ ~cancel_visible))
          /\ (current_edit_id # None <=> (~submit_visible /\ update_visible /\ cancel_visible)))
    /\ [][ /\ event' = "add_product" =>
                /\ CreateMode
                /\ products \subseteq products'
                /\ Cardinality(products') <= Cardinality(products) + 1
                /\ Ids(products' \ products) \cap Ids(products) = {}
           /\ event' = "update_product" =>
                /\ EditMode
                /\ Ids(products') = Ids(products)
                /\ \A r \in products : r.id # current_edit_id => r \in products'
           /\ (event' = "update_product" /\ Len(calls') > 0 /\ calls'[1].ret > 0) =>
                (CreateMode' /\ DraftEmpty')
           /\ event' = "cancel_edit" => (CreateMode' /\ DraftEmpty') ]_vars

C9_Witness ==
    /\ event = "update_product"
    /\ CreateMode
    /\ DraftEmpty
    /\ snack_bar = "Product updated successfully!"
    /\ \E p \in products : p.name = <<"B">> /\ p.id = 1

\* C10: the store's delete runs for an id only from the open confirmation
\* dialog of that id, on Yes; the row's delete control alone and No leave the
\* table as it is, Yes and No both close the dialog, and after Yes no record
\* of that id is left.
C10_DeleteNeedsConfirm ==
    [][ /\ (\E i \in 1..Len(calls') : calls'[i].op = "delete_product") =>
               /\ dialog_open
               /\ calls'[1].id = dialog_pid
               /\ ~dialog_open'
        /\ Ids(products) \ Ids(products') # {} =>
               /\ dialog_open
               /\ Ids(products) \ Ids(products') = {dialog_pid}
        /\ (~dialog_open /\ dialog_open') =>
               /\ products' = products
               /\ dialog_pid' \in RowPids
        /\ event' = "delete_product" => (products' = products /\ dialog_open')
        /\ event' = "cancel_delete" => (products' = products /\ ~dialog_open')
        /\ event' = "confirm_delete" =>
               /\ ~dialog_open'
               /\ dialog_pid \notin Ids(products')
               /\ products' \subseteq products ]_vars

C10_Witness ==
    /\ event = "confirm_delete"
    /\ ~dialog_open
    /\ snack_bar = "Product deleted successfully!"
    /\ deleted # {}
    /\ products # {}

====
